---- MODULE Spec2Model ----
(***************************************************************************)
(* Model of the shader compiler command-line driver                        *)
(* (src/src/compiler/src/main.cpp): argument parsing, acquisition of the   *)
(* shader source, the single call into the shaderc library, and the        *)
(* emission of either the SPIR-V words on standard output or a diagnostic  *)
(* on standard error.                                                      *)
(*                                                                         *)
(* argv holds the arguments after the program name, so argv[i] here is     *)
(* argv[i] of main and argc = Len(argv) + 1.                               *)
(***************************************************************************)
EXTENDS Integers, Sequences, FiniteSets, TLC

VARIABLES argv, pc, i, shaderKind, optimize, inputName, inputFile,
          stdoutBinary, opens, stdinState, shaderSource, calls, result,
          stdout, stderr, exitCode

vars == <<argv, pc, i, shaderKind, optimize, inputName, inputFile,
          stdoutBinary, opens, stdinState, shaderSource, calls, result,
          stdout, stderr, exitCode>>

(* ------------------------------ bounds --------------------------------- *)

MaxArgs == 4
MaxStageArgs == 3
MaxWords == 2
MaxStatus == 2

(* ------------------------- values of the model ------------------------- *)

Flags == {"-t", "-O", "-n", "-f"}

StageTokens ==
    {"vertex", "fragment", "compute", "geometry", "tess_control", "tess_evaluation"}

SpecStageNames == {"tessellation-control", "tessellation-evaluation"}

Tokens == Flags \cup {"vertex", "", "s.glsl"}

AllTokens == Flags \cup StageTokens \cup SpecStageNames \cup {"", "s.glsl"}

InferFromSource == "shaderc_glsl_infer_from_source"

StatusSuccess == 0

FailStatuses == 1..MaxStatus

ErrorTexts == {"", "shader:1: error: syntax error"}

WordValues == {10, 119734787}

FileContents == {"", "FILE-SOURCE"}

StdinContents == {"", "STDIN-SOURCE"}

NoResult == [status |-> -1, words |-> <<>>, msg |-> ""]

SeqsUpTo(S, n) == UNION {[1..k -> S] : k \in 0..n}

(* ---------------------------- getShaderKind ---------------------------- *)

getShaderKind_swapped(type) ==
    IF type = "vertex" THEN "shaderc_fragment_shader"
    ELSE IF type = "fragment" THEN "shaderc_vertex_shader"
    ELSE IF type = "compute" THEN "shaderc_compute_shader"
    ELSE IF type = "geometry" THEN "shaderc_geometry_shader"
    ELSE IF type = "tess_control" THEN "shaderc_tess_control_shader"
    ELSE IF type = "tess_evaluation" THEN "shaderc_tess_evaluation_shader"
    ELSE InferFromSource

getShaderKind(type) ==
    IF type = "vertex" THEN "shaderc_vertex_shader"
    ELSE IF type = "fragment" THEN "shaderc_fragment_shader"
    ELSE IF type = "compute" THEN "shaderc_compute_shader"
    ELSE IF type = "geometry" THEN "shaderc_geometry_shader"
    ELSE IF type = "tess_control" THEN "shaderc_tess_control_shader"
    ELSE IF type = "tess_evaluation" THEN "shaderc_tess_evaluation_shader"
    ELSE InferFromSource

(* ------------------------- the argument loop --------------------------- *)

DefaultOptions ==
    [i |-> 1, shaderKind |-> InferFromSource, optimize |-> FALSE,
     inputName |-> "shader", inputFile |-> ""]

\* One iteration of the for loop, i++ included.
ParseArg_keepKind(o, av) ==
    LET arg == av[o.i]
        more == o.i + 1 <= Len(av)
    IN  IF arg = "-t" /\ more
        THEN [o EXCEPT !.shaderKind =
                           IF getShaderKind(av[o.i + 1]) = InferFromSource
                           THEN o.shaderKind ELSE getShaderKind(av[o.i + 1]),
                       !.i = o.i + 2]
        ELSE IF arg = "-O"
        THEN [o EXCEPT !.optimize = TRUE, !.i = o.i + 1]
        ELSE IF arg = "-n" /\ more
        THEN [o EXCEPT !.inputName = av[o.i + 1], !.i = o.i + 2]
        ELSE IF arg = "-f" /\ more
        THEN [o EXCEPT !.inputFile = av[o.i + 1], !.i = o.i + 2]
        ELSE [o EXCEPT !.i = o.i + 1]

\* A bare argument taken as the input file.
ParseArg_positional(o, av) ==
    LET arg == av[o.i]
        more == o.i + 1 <= Len(av)
    IN  IF arg = "-t" /\ more
        THEN [o EXCEPT !.shaderKind = getShaderKind(av[o.i + 1]), !.i = o.i + 2]
        ELSE IF arg = "-O"
        THEN [o EXCEPT !.optimize = TRUE, !.i = o.i + 1]
        ELSE IF arg = "-n" /\ more
        THEN [o EXCEPT !.inputName = av[o.i + 1], !.i = o.i + 2]
        ELSE IF arg = "-f" /\ more
        THEN [o EXCEPT !.inputFile = av[o.i + 1], !.i = o.i + 2]
        ELSE IF arg \notin Flags
        THEN [o EXCEPT !.inputFile = arg, !.i = o.i + 1]
        ELSE [o EXCEPT !.i = o.i + 1]

ParseArg(o, av) ==
    LET arg == av[o.i]
        more == o.i + 1 <= Len(av)
    IN  IF arg = "-t" /\ more
        THEN [o EXCEPT !.shaderKind = getShaderKind(av[o.i + 1]), !.i = o.i + 2]
        ELSE IF arg = "-O"
        THEN [o EXCEPT !.optimize = TRUE, !.i = o.i + 1]
        ELSE IF arg = "-n" /\ more
        THEN [o EXCEPT !.inputName = av[o.i + 1], !.i = o.i + 2]
        ELSE IF arg = "-f" /\ more
        THEN [o EXCEPT !.inputFile = av[o.i + 1], !.i = o.i + 2]
        ELSE [o EXCEPT !.i = o.i + 1]

RECURSIVE ParseFrom(_, _)
ParseFrom(o, av) == IF o.i <= Len(av) THEN ParseFrom(ParseArg(o, av), av) ELSE o

\* The four invocation options the loop leaves for an argument list.
ParseArgs(av) ==
    LET o == ParseFrom(DefaultOptions, av)
    IN  [shaderKind |-> o.shaderKind, optimize |-> o.optimize,
         inputName |-> o.inputName, inputFile |-> o.inputFile]

\* The positions the loop reads as `arg` (the others are consumed by ++i).
RECURSIVE ArgPositionsFrom(_, _)
ArgPositionsFrom(o, av) ==
    IF o.i <= Len(av) THEN {o.i} \cup ArgPositionsFrom(ParseArg(o, av), av) ELSE {}

ArgPositions(av) == ArgPositionsFrom(DefaultOptions, av)

\* The positions where the loop takes a flag together with its operand.
FlagUses(av, flag) ==
    {k \in ArgPositions(av) : av[k] = flag /\ k + 1 <= Len(av)}

SetMax(S) == CHOOSE x \in S : \A y \in S : y <= x

\* The operand of the last use of a flag.
LastOperand(av, flag) == av[SetMax(FlagUses(av, flag)) + 1]

RemoveAt(av, p) == [k \in 1..(Len(av) - 1) |-> IF k < p THEN av[k] ELSE av[k + 1]]

(* ------------------------------ output --------------------------------- *)

OptimizationLevel_never(opt) == "unset"

\* CompileOptions as handed over: SetOptimizationLevel is called only if optimize.
OptimizationLevel(opt) == IF opt THEN "shaderc_optimization_level_performance" ELSE "unset"

\* The four bytes of a uint32_t in memory order (least significant first).
WordBytes(w) ==
    <<w % 256, (w \div 256) % 256, (w \div 65536) % 256, (w \div 16777216) % 256>>

RECURSIVE SpirvBytes(_)
SpirvBytes(ws) == IF ws = <<>> THEN <<>> ELSE WordBytes(Head(ws)) \o SpirvBytes(Tail(ws))

\* What reaches the stream: a text-mode stdout expands each line feed.
RECURSIVE StreamBytes(_, _)
StreamBytes(bs, binary) ==
    IF bs = <<>> THEN <<>>
    ELSE IF ~binary /\ Head(bs) = 10
         THEN <<13, 10>> \o StreamBytes(Tail(bs), binary)
         ELSE <<Head(bs)>> \o StreamBytes(Tail(bs), binary)

(* ------------------------------- state --------------------------------- *)

InitRest ==
    /\ pc = "setmode"
    /\ i = 1
    /\ shaderKind = InferFromSource
    /\ optimize = FALSE
    /\ inputName = "shader"
    /\ inputFile = ""
    /\ stdoutBinary = FALSE
    /\ opens = <<>>
    /\ stdinState = "unread"
    /\ shaderSource = ""
    /\ calls = <<>>
    /\ result = NoResult
    /\ stdout = <<>>
    /\ stderr = <<>>
    /\ exitCode = -1

Init == argv \in SeqsUpTo(Tokens, MaxArgs) /\ InitRest

InitStages == argv \in SeqsUpTo(AllTokens, MaxStageArgs) /\ InitRest

(* ------------------------------ actions -------------------------------- *)

SetBinaryMode_skipped ==
    /\ pc = "setmode"
    /\ stdoutBinary' = FALSE
    /\ pc' = "parse"
    /\ UNCHANGED <<argv, i, shaderKind, optimize, inputName, inputFile, opens,
                   stdinState, shaderSource, calls, result, stdout, stderr, exitCode>>

SetBinaryMode ==
    /\ pc = "setmode"
    /\ stdoutBinary' = TRUE
    /\ pc' = "parse"
    /\ UNCHANGED <<argv, i, shaderKind, optimize, inputName, inputFile, opens,
                   stdinState, shaderSource, calls, result, stdout, stderr, exitCode>>

ParseLoop ==
    /\ pc = "parse"
    /\ i <= Len(argv)
    /\ LET o == ParseArg([i |-> i, shaderKind |-> shaderKind, optimize |-> optimize,
                          inputName |-> inputName, inputFile |-> inputFile], argv)
       IN  /\ i' = o.i
           /\ shaderKind' = o.shaderKind
           /\ optimize' = o.optimize
           /\ inputName' = o.inputName
           /\ inputFile' = o.inputFile
    /\ UNCHANGED <<argv, pc, stdoutBinary, opens, stdinState, shaderSource, calls,
                   result, stdout, stderr, exitCode>>

ParseDone ==
    /\ pc = "parse"
    /\ i > Len(argv)
    /\ pc' = "read"
    /\ UNCHANGED <<argv, i, shaderKind, optimize, inputName, inputFile, stdoutBinary,
                   opens, stdinState, shaderSource, calls, result, stdout, stderr,
                   exitCode>>

\* The return after the diagnostic left out.
OpenFailed_continue ==
    /\ pc = "read"
    /\ inputFile # ""
    /\ opens' = Append(opens, [path |-> inputFile, ok |-> FALSE])
    /\ stderr' = Append(stderr, "Error: Could not open file: " \o inputFile)
    /\ pc' = "check"
    /\ UNCHANGED <<argv, i, shaderKind, optimize, inputName, inputFile, stdoutBinary,
                   stdinState, shaderSource, calls, result, stdout, exitCode>>

OpenFailed ==
    /\ pc = "read"
    /\ inputFile # ""
    /\ opens' = Append(opens, [path |-> inputFile, ok |-> FALSE])
    /\ stderr' = Append(stderr, "Error: Could not open file: " \o inputFile)
    /\ exitCode' = 1
    /\ pc' = "done"
    /\ UNCHANGED <<argv, i, shaderKind, optimize, inputName, inputFile, stdoutBinary,
                   stdinState, shaderSource, calls, result, stdout>>

ReadFile ==
    /\ pc = "read"
    /\ inputFile # ""
    /\ \E content \in FileContents :
          /\ opens' = Append(opens, [path |-> inputFile, ok |-> TRUE])
          /\ shaderSource' = content
    /\ pc' = "check"
    /\ UNCHANGED <<argv, i, shaderKind, optimize, inputName, inputFile, stdoutBinary,
                   stdinState, calls, result, stdout, stderr, exitCode>>

ReadStdin_also ==
    /\ pc = "read"
    /\ \E content \in StdinContents :
          /\ stdinState' = "eof"
          /\ shaderSource' = content
    /\ pc' = "check"
    /\ UNCHANGED <<argv, i, shaderKind, optimize, inputName, inputFile, stdoutBinary,
                   opens, calls, result, stdout, stderr, exitCode>>

ReadStdin ==
    /\ pc = "read"
    /\ inputFile = ""
    /\ \E content \in StdinContents :
          /\ stdinState' = "eof"
          /\ shaderSource' = content
    /\ pc' = "check"
    /\ UNCHANGED <<argv, i, shaderKind, optimize, inputName, inputFile, stdoutBinary,
                   opens, calls, result, stdout, stderr, exitCode>>

EmptySource_silent ==
    /\ pc = "check"
    /\ shaderSource = ""
    /\ exitCode' = 1
    /\ pc' = "done"
    /\ UNCHANGED <<argv, i, shaderKind, optimize, inputName, inputFile, stdoutBinary,
                   opens, stdinState, shaderSource, calls, result, stdout, stderr>>

EmptySource ==
    /\ pc = "check"
    /\ shaderSource = ""
    /\ stderr' = Append(stderr, "Error: No shader source provided")
    /\ exitCode' = 1
    /\ pc' = "done"
    /\ UNCHANGED <<argv, i, shaderKind, optimize, inputName, inputFile, stdoutBinary,
                   opens, stdinState, shaderSource, calls, result, stdout>>

\* The library is a black box: any status, any words, any error text.
Compile ==
    /\ pc = "check"
    /\ shaderSource # ""
    /\ calls' = Append(calls, [source |-> shaderSource, kind |-> shaderKind,
                               name |-> inputName,
                               level |-> OptimizationLevel(optimize)])
    /\ \/ \E ws \in SeqsUpTo(WordValues, MaxWords) :
             result' = [status |-> StatusSuccess, words |-> ws, msg |-> ""]
       \/ \E st \in FailStatuses, m \in ErrorTexts :
             result' = [status |-> st, words |-> <<>>, msg |-> m]
    /\ pc' = "status"
    /\ UNCHANGED <<argv, i, shaderKind, optimize, inputName, inputFile, stdoutBinary,
                   opens, stdinState, shaderSource, stdout, stderr, exitCode>>

\* The diagnostic written to std::cout instead of std::cerr.
ReportError_cout ==
    /\ pc = "status"
    /\ result.status # StatusSuccess
    /\ stdout' = stdout \o <<67, 111, 109, 112>>
    /\ exitCode' = 1
    /\ pc' = "done"
    /\ UNCHANGED <<argv, i, shaderKind, optimize, inputName, inputFile, stdoutBinary,
                   opens, stdinState, shaderSource, calls, result, stderr>>

ReportError_retry ==
    /\ pc = "status"
    /\ result.status # StatusSuccess
    /\ stderr' = stderr \o
          <<"Compilation error (status code: " \o ToString(result.status) \o ")",
            "Error message: \"" \o result.msg \o "\"">>
    /\ IF Len(calls) < 2 THEN pc' = "check" /\ exitCode' = exitCode
                         ELSE pc' = "done" /\ exitCode' = 1
    /\ UNCHANGED <<argv, i, shaderKind, optimize, inputName, inputFile, stdoutBinary,
                   opens, stdinState, shaderSource, calls, result, stdout>>

ReportError ==
    /\ pc = "status"
    /\ result.status # StatusSuccess
    /\ stderr' = stderr \o
          <<"Compilation error (status code: " \o ToString(result.status) \o ")",
            "Error message: \"" \o result.msg \o "\"">>
    /\ exitCode' = 1
    /\ pc' = "done"
    /\ UNCHANGED <<argv, i, shaderKind, optimize, inputName, inputFile, stdoutBinary,
                   opens, stdinState, shaderSource, calls, result, stdout>>

WriteSpirv ==
    /\ pc = "status"
    /\ result.status = StatusSuccess
    /\ stdout' = stdout \o StreamBytes(SpirvBytes(result.words), stdoutBinary)
    /\ exitCode' = 0
    /\ pc' = "done"
    /\ UNCHANGED <<argv, i, shaderKind, optimize, inputName, inputFile, stdoutBinary,
                   opens, stdinState, shaderSource, calls, result, stderr>>

Next ==
    \/ SetBinaryMode
    \/ ParseLoop
    \/ ParseDone
    \/ OpenFailed
    \/ ReadFile
    \/ ReadStdin
    \/ EmptySource
    \/ Compile
    \/ ReportError
    \/ WriteSpirv

Spec == Init /\ [][Next]_vars

SpecStages == InitStages /\ [][Next]_vars

(* ------------------------ notions the claims use ----------------------- *)

Range(s) == {s[k] : k \in DOMAIN s}

\* The path the loop leaves in inputFile: the operand of the last -f it takes.
GivenPath(av) == IF FlagUses(av, "-f") = {} THEN "" ELSE LastOperand(av, "-f")

\* av without the positions in P.
RECURSIVE Without(_, _)
Without(av, P) ==
    IF av = <<>> THEN <<>>
    ELSE LET n == Len(av)
             front == Without(SubSeq(av, 1, n - 1), P)
         IN  IF n \in P THEN front ELSE Append(front, av[n])

Options ==
    [shaderKind |-> shaderKind, optimize |-> optimize,
     inputName |-> inputName, inputFile |-> inputFile]

Parsed == pc \notin {"setmode", "parse"}

OpenFailure == opens # <<>> /\ ~opens[Len(opens)].ok

\* A source buffer has been read (from an opened file or from standard input).
SourceObtained == stdinState = "eof" \/ (opens # <<>> /\ opens[Len(opens)].ok)

CompileFailure == result.status \notin {-1, StatusSuccess}

WordOfBytes(bs, j) ==
    bs[4 * j - 3] + 256 * bs[4 * j - 2] + 65536 * bs[4 * j - 1] + 16777216 * bs[4 * j]

(* ------------------------------- claims -------------------------------- *)

\* C1: a run that ends with exit code 1 has written nothing to standard
\* output, a run that ends with exit code 0 has written nothing to the
\* diagnostic stream, and binary output and error text are never both
\* produced; a finished run has exit code 0 or 1.
C1_NoMixedOutput ==
    /\ exitCode = 1 => stdout = <<>> /\ stderr # <<>>
    /\ exitCode = 0 => stderr = <<>>
    /\ ~(stdout # <<>> /\ stderr # <<>>)
    /\ pc = "done" <=> exitCode \in {0, 1}

C1_Witness == pc = "done" /\ exitCode = 1 /\ calls # <<>> /\ stderr # <<>>

\* C2: when the path given with -f (the non-empty operand of the last -f the
\* loop takes) cannot be opened, the run has tried to open exactly that path,
\* writes "Error: Could not open file: <path>" and nothing else to the
\* diagnostic stream, exits with code 1, and has never invoked the compiler.
C2_OpenFailure ==
    LET p == GivenPath(argv)
    IN  p # "" =>
          /\ pc \in {"check", "status", "done"} =>
                Len(opens) = 1 /\ opens[1].path = p
          /\ OpenFailure =>
                /\ pc = "done"
                /\ exitCode = 1
                /\ stderr = <<"Error: Could not open file: " \o p>>
                /\ calls = <<>>
                /\ stdout = <<>>

C2_Witness ==
    /\ pc = "done"
    /\ GivenPath(argv) = "s.glsl"
    /\ OpenFailure
    /\ stderr = <<"Error: Could not open file: s.glsl">>

\* C3: whenever the source buffer obtained is empty (an opened file without
\* content, or an empty standard input), the compiler is never invoked,
\* nothing is written to standard output, and the run ends with exit code 1
\* and exactly "Error: No shader source provided" on the diagnostic stream.
C3_EmptySource ==
    SourceObtained /\ shaderSource = "" =>
        /\ calls = <<>>
        /\ stdout = <<>>
        /\ pc \in {"check", "done"}
        /\ pc = "done" =>
              /\ exitCode = 1
              /\ stderr = <<"Error: No shader source provided">>

C3_Witness ==
    /\ pc = "done"
    /\ shaderSource = ""
    /\ opens # <<>>
    /\ opens[1].ok
    /\ stderr = <<"Error: No shader source provided">>

\* C4: whenever the compiler invocation returns a status other than success,
\* the run reports that status as a number and the library's error text
\* unchanged on the diagnostic stream, exits with code 1, writes nothing to
\* standard output, and the compiler has been invoked exactly once.
C4_CompileFailure ==
    CompileFailure =>
        /\ Len(calls) = 1
        /\ stdout = <<>>
        /\ pc \in {"status", "done"}
        /\ pc = "done" =>
              /\ exitCode = 1
              /\ stderr =
                   <<"Compilation error (status code: " \o ToString(result.status) \o ")",
                     "Error message: \"" \o result.msg \o "\"">>

C4_Witness ==
    /\ pc = "done"
    /\ result.status = 2
    /\ result.msg # ""
    /\ Len(stderr) = 2

\* C5: whenever the compiler reports success with n words, the run ends with
\* exit code 0 and standard output is exactly 4*n bytes: the n words in their
\* order, four bytes each, nothing before, between or after them.
C5_ExactWords ==
    pc = "done" /\ result.status = StatusSuccess =>
        /\ exitCode = 0
        /\ Len(stdout) = 4 * Len(result.words)
        /\ \A j \in 1..Len(result.words) : WordOfBytes(stdout, j) = result.words[j]

C5_Witness ==
    /\ pc = "done"
    /\ exitCode = 0
    /\ Len(result.words) >= 2
    /\ result.words[1] = 10
    /\ result.words[2] # 10

\* The stage variant each token of the spec's enumeration names.
SpecStageOf ==
    [t \in {"vertex", "fragment", "compute", "geometry"} \cup SpecStageNames |->
        CASE t = "vertex" -> "shaderc_vertex_shader"
          [] t = "fragment" -> "shaderc_fragment_shader"
          [] t = "compute" -> "shaderc_compute_shader"
          [] t = "geometry" -> "shaderc_geometry_shader"
          [] t = "tessellation-control" -> "shaderc_tess_control_shader"
          [] t = "tessellation-evaluation" -> "shaderc_tess_evaluation_shader"]

\* The stage variant each token the code compares against names.
CodeStageOf ==
    [t \in StageTokens |->
        CASE t = "vertex" -> "shaderc_vertex_shader"
          [] t = "fragment" -> "shaderc_fragment_shader"
          [] t = "compute" -> "shaderc_compute_shader"
          [] t = "geometry" -> "shaderc_geometry_shader"
          [] t = "tess_control" -> "shaderc_tess_control_shader"
          [] t = "tess_evaluation" -> "shaderc_tess_evaluation_shader"]

StageUsed == calls # <<>> /\ FlagUses(argv, "-t") # {}

\* C6 as stated: each of vertex, fragment, compute, geometry,
\* tessellation-control, tessellation-evaluation, passed with -t, hands the
\* variant of that name to the compiler, never "infer from source".
C6_SpecTokens ==
    StageUsed /\ LastOperand(argv, "-t") \in DOMAIN SpecStageOf =>
        /\ calls[1].kind = SpecStageOf[LastOperand(argv, "-t")]
        /\ calls[1].kind # InferFromSource

\* C6 amended: the six tokens are vertex, fragment, compute, geometry,
\* tess_control and tess_evaluation; the token of the last -t the loop takes
\* hands the variant of that name to the compiler, the six variants are
\* pairwise distinct and none is "infer from source"; tessellation-control and
\* tessellation-evaluation are not tokens and give "infer from source".
C6_CodeTokens ==
    /\ \A s, t \in StageTokens : s # t => CodeStageOf[s] # CodeStageOf[t]
    /\ StageUsed /\ LastOperand(argv, "-t") \in StageTokens =>
          /\ calls[1].kind = CodeStageOf[LastOperand(argv, "-t")]
          /\ calls[1].kind # InferFromSource
    /\ StageUsed /\ LastOperand(argv, "-t") \in SpecStageNames =>
          calls[1].kind = InferFromSource

C6_Witness ==
    /\ StageUsed
    /\ LastOperand(argv, "-t") = "tess_evaluation"
    /\ calls[1].kind = "shaderc_tess_evaluation_shader"
    /\ pc = "done"

\* C7: the stage handed to the compiler is "infer from source" whenever the
\* loop takes no -t flag, and whenever the token of the last -t it takes is
\* not a recognized stage token, also when an earlier -t named a recognized
\* stage.
C7_InferFallback ==
    calls # <<>> =>
        /\ FlagUses(argv, "-t") = {} => calls[1].kind = InferFromSource
        /\ FlagUses(argv, "-t") # {} /\ LastOperand(argv, "-t") \notin StageTokens =>
              calls[1].kind = InferFromSource

C7_Witness ==
    /\ calls # <<>>
    /\ Cardinality(FlagUses(argv, "-t")) = 2
    /\ \E k \in FlagUses(argv, "-t") : argv[k + 1] = "vertex"
    /\ LastOperand(argv, "-t") \notin StageTokens
    /\ calls[1].kind = InferFromSource

\* C8 as stated: the compiler gets the performance preset when -O is present
\* among the arguments and no optimization level when it is absent, and the
\* argument list without its -O arguments gives the same stage, logical name
\* and input.
C8_AnyDashO ==
    calls # <<>> =>
        LET rest == ParseArgs(Without(argv, {k \in DOMAIN argv : argv[k] = "-O"}))
        IN  /\ "-O" \in Range(argv) =>
                  calls[1].level = "shaderc_optimization_level_performance"
            /\ "-O" \notin Range(argv) => calls[1].level = "unset"
            /\ calls[1].kind = rest.shaderKind
            /\ calls[1].name = rest.inputName
            /\ inputFile = rest.inputFile

\* C8 amended: the compiler gets the performance preset when -O occurs where
\* the loop reads it as a flag (not as the operand taken after -t, -n or -f)
\* and no optimization level otherwise; the argument list without those -O
\* gives the same stage, logical name and input.
C8_FlagDashO ==
    calls # <<>> =>
        LET at == {k \in ArgPositions(argv) : argv[k] = "-O"}
            rest == ParseArgs(Without(argv, at))
        IN  /\ at # {} => calls[1].level = "shaderc_optimization_level_performance"
            /\ at = {} => calls[1].level = "unset"
            /\ calls[1].kind = rest.shaderKind
            /\ calls[1].name = rest.inputName
            /\ inputFile = rest.inputFile
            /\ ~rest.optimize

C8_Witness ==
    /\ calls # <<>>
    /\ calls[1].level = "shaderc_optimization_level_performance"
    /\ calls[1].kind = "shaderc_vertex_shader"
    /\ argv[Len(argv)] = "-O"

\* A failed run has one of the three causes, none of them an argument as such.
FailureCause == exitCode = 1 => OpenFailure \/ shaderSource = "" \/ CompileFailure

C10_InputSource ==
    LET p == GivenPath(argv)
    IN  /\ p # "" =>
              /\ stdinState = "unread"
              /\ SourceObtained => opens = <<[path |-> p, ok |-> TRUE]>>
              /\ calls # <<>> => SourceObtained /\ calls[1].source \in FileContents
        /\ stdinState = "eof" => p = "" /\ opens = <<>>
        /\ p = "" =>
              /\ opens = <<>>
              /\ pc \in {"check", "status", "done"} => stdinState = "eof"
              /\ calls # <<>> => calls[1].source \in StdinContents

C10_Witness ==
    /\ GivenPath(argv) # ""
    /\ Cardinality(FlagUses(argv, "-f")) = 2
    /\ calls # <<>>
    /\ calls[1].source = "FILE-SOURCE"
    /\ stdinState = "unread"

====
